---- MODULE Spec2Model ----
(***************************************************************************)
(* ytd: a terminal front-end that collects a playlist name and a URL,      *)
(* runs yt-dlp on a background thread and renders its output.              *)
(*                                                                         *)
(* The model has four threads, as src/main.rs has:                         *)
(*   main    the render/input loop of main() with App::check_download      *)
(*   worker  the closure spawned by App::start_download                    *)
(*   t1, t2  the two threads that drain the child's stdout and stderr      *)
(* Strings are sequences of one-character strings; "\n" is the newline.    *)
(* spinner_frame (main.rs:187,193) only selects a glyph in ui and is read  *)
(* by no transition; it is left out of the state.                          *)
(***************************************************************************)
EXTENDS Naturals, Sequences, FiniteSets

VARIABLES
    mpc,                    \* position of the main thread in main()
    main_result,            \* what main() returned: "none", "Ok", "Err"
    raw_mode,               \* terminal is in raw mode
    alt_screen,             \* terminal is on the alternate screen
    key,                    \* the event bound by `if let Event::Key(key)`
    state,                  \* App.state
    playlist_name,          \* App.playlist_name
    url,                    \* App.url
    error_message,          \* App.error_message
    files_downloaded,       \* App.files_downloaded
    download_output,        \* the String inside App.download_output
    download_output_final,  \* App.download_output_final
    download_done,          \* App.download_done
    download_success,       \* App.download_success
    output,                 \* the local `output` of ui (the rendered copy)
    lock,                   \* threads holding the download_output mutex
    wpc,                    \* position of the worker thread
    child,                  \* the yt-dlp process as the worker sees it
    dpc,                    \* position of each drain thread
    stream,                 \* what is left to read on each pipe
    line,                   \* the local `l` of each drain thread
    fs_log                  \* file-system calls made on the music directory

vars == <<mpc, main_result, raw_mode, alt_screen, key, state, playlist_name,
          url, error_message, files_downloaded, download_output,
          download_output_final, download_done, download_success, output,
          lock, wpc, child, dpc, stream, line, fs_log>>

mainVars == <<mpc, main_result, raw_mode, alt_screen, key>>
appVars == <<state, playlist_name, url, error_message, files_downloaded,
             download_output_final>>
chanVars == <<download_output, download_done, download_success, lock>>
workerVars == <<wpc, child, dpc, stream, line>>

(* ------------------------------ bounds -------------------------------- *)

MaxNameLen == 2
MaxUrlLen == 2
MaxOutLines == 2
MaxErrLines == 1

(* ----------------------------- vocabulary ----------------------------- *)

(* The printable keys.  The user types a fixed text, so the i-th character *)
(* of a field is Letter(i).                                                *)
Alphabet == <<"a", "b", "c", "d">>
Chars == {Alphabet[i] : i \in 1..Len(Alphabet)}
Letter(i) == Alphabet[((i - 1) % Len(Alphabet)) + 1]
NL == "\n"
Drains == {"t1", "t2"}

InputPlaylistName == "InputPlaylistName"
InputUrl == "InputUrl"
Downloading == "Downloading"
Done == "Done"
Error == "Error"
AppState == {InputPlaylistName, InputUrl, Downloading, Done, Error}

KeyCodes == {"Enter", "Esc", "Backspace"} \cup Chars
KeyEvents == [is_key : {TRUE}, code : KeyCodes, kind : {"Press", "Release"}]
Resize == [is_key |-> FALSE, code |-> "Resize", kind |-> "Press"]
NoKey == [is_key |-> FALSE, code |-> "None", kind |-> "Press"]
Events == KeyEvents \cup {Resize}

SpawnFailText == <<"Failed to spawn: ", "e">>

(* An error screen that shows what the worker recorded.                    *)
ErrorText_Underlying == SpawnFailText

ErrorText == <<"Download failed. Check your connection and URL.">>

(* The i-th line the child writes on a pipe: i copies of the pipe's letter. *)
LineText(t, i) == [k \in 1..i |-> IF t = "t1" THEN "o" ELSE "e"]

(* A pipe's content: n lines, of which line `bad` (0: none) is not UTF-8,   *)
(* so that reader.lines() yields Err for it.                                *)
Pipe(t, n, bad) ==
    [i \in 1..n |-> [ok |-> (i # bad), text |-> LineText(t, i)]]

MaxLines(t) == IF t = "t1" THEN MaxOutLines ELSE MaxErrLines

Pipes(t) == {Pipe(t, n, bad) : n \in 0..MaxLines(t), bad \in 0..1}

(* Directory listings read_dir may return: entries as <<stem, extension>>,  *)
(* or "Err" when the directory cannot be read.                              *)
DirListings ==
    { "Err", <<>>, <<<<"track", "m4a">>>>,
      <<<<"cover", "jpg">>, <<"track", "m4a">>>> }

(* The .m4a filter of check_download.                                      *)
RECURSIVE FilterM4a(_)
FilterM4a(entries) ==
    IF entries = <<>> THEN <<>>
    ELSE IF Head(entries)[2] = "m4a"
         THEN <<Head(entries)>> \o FilterM4a(Tail(entries))
         ELSE FilterM4a(Tail(entries))

ReadDirM4a(listing) == IF listing = "Err" THEN <<>> ELSE FilterM4a(listing)

(* A delete that removes the first character.                              *)
Pop_First(s) == IF s = <<>> THEN <<>> ELSE Tail(s)

(* A clone that copies nothing.                                            *)
Clone_Nothing(text) == <<>>

(* String::clone: a copy of the text as it is now.                         *)
Clone(text) == text

(* A push_str that inserts at the front.                                   *)
PushStr_Front(buf, text) == text \o buf

(* String::push_str: append the text.                                      *)
PushStr(buf, text) == buf \o text

(* String::pop: remove the last character, nothing on the empty string.    *)
Pop(s) == IF s = <<>> THEN <<>> ELSE SubSeq(s, 1, Len(s) - 1)

(* ExitStatus::default() is the status of a successful exit.               *)
ExitStatusDefault == 0
StatusSuccess(code) == code = 0

(* What the worker closure captured and what became of the child:         *)
(* spawn is "none" until Command::spawn returns, then "Ok" or "Err";       *)
(* wait is what c.wait() returned ("none" before the call) and exit_code   *)
(* the status the process ended with (meaningful once wait is set);        *)
(* pipes is everything the process writes on stdout (t1) and stderr (t2).  *)
NoChild == [url |-> <<>>, output_path |-> <<>>, spawn |-> "none",
            exit_code |-> 0, wait |-> "none",
            pipes |-> [t \in Drains |-> <<>>]]

(* The statuses yt-dlp may end with.                                       *)
ExitCodes == {0, 1}

(* A confirm guard that lets every text through.                            *)
NonEmpty_Always(s) == TRUE

(* String::is_empty, negated: the guard of both confirm keys.              *)
NonEmpty(s) == s # <<>>

(* A cancel that, like the other branches, only takes a pressed key.       *)
IsCancel_PressOnly(k) == k.code = "Esc" /\ k.kind = "Press"

(* A cancel that gives way to a download that has finished.                *)
IsCancel_UnlessDone(k) == k.code = "Esc" /\ ~download_done

(* key.code == KeyCode::Esc in the Downloading branch of the loop.         *)
IsCancel(k) == k.code = "Esc"

(* A failure that sends the user back to the URL field.                    *)
FailedState_Retry == InputUrl

(* The state check_download enters when download_success is false.         *)
FailedState == Error

(* ------------------------------- mutex -------------------------------- *)

(* A lock that excludes nobody.                                            *)
CanLock_Unguarded == TRUE

(* Mutex::lock returns once no thread holds the guard.                     *)
CanLock == lock = {}

(* A guard that is never dropped.                                          *)
Unlock_Leak(t) == lock

(* Dropping the MutexGuard.                                                *)
Unlock(t) == lock \ {t}

(* The process, and with it every thread, ends when main() returns.        *)
ProcessAlive == mpc # "returned"

(* ------------------------------- Init --------------------------------- *)

Init ==
    /\ mpc = "enable_raw"
    /\ main_result = "none"
    /\ raw_mode = FALSE
    /\ alt_screen = FALSE
    /\ key = NoKey
    /\ state = InputPlaylistName
    /\ playlist_name = <<>>
    /\ url = <<>>
    /\ error_message = <<>>
    /\ files_downloaded = <<>>
    /\ download_output = <<>>
    /\ download_output_final = <<>>
    /\ download_done = FALSE
    /\ download_success = FALSE
    /\ output = <<>>
    /\ lock = {}
    /\ wpc = "none"
    /\ child = NoChild
    /\ dpc = [t \in Drains |-> "none"]
    /\ stream = [t \in Drains |-> <<>>]
    /\ line = [t \in Drains |-> <<>>]
    /\ fs_log = <<>>

(* main() returning Err by `?`: nothing is restored on the way out.        *)
ReturnErr ==
    /\ mpc' = "returned"
    /\ main_result' = "Err"

(* ------------------------- main: terminal setup ----------------------- *)

EnableRawMode ==
    /\ mpc = "enable_raw"
    /\ \E ok \in BOOLEAN :
         IF ok THEN /\ raw_mode' = TRUE
                    /\ mpc' = "enter_alt"
                    /\ main_result' = main_result
               ELSE /\ ReturnErr
                    /\ raw_mode' = raw_mode
    /\ UNCHANGED <<alt_screen, key, appVars, chanVars, output, workerVars, fs_log>>

EnterAlternateScreen ==
    /\ mpc = "enter_alt"
    /\ \E ok \in BOOLEAN :
         IF ok THEN /\ alt_screen' = TRUE
                    /\ mpc' = "new_terminal"
                    /\ main_result' = main_result
               ELSE /\ ReturnErr
                    /\ alt_screen' = alt_screen
    /\ UNCHANGED <<raw_mode, key, appVars, chanVars, output, workerVars, fs_log>>

TerminalNew ==
    /\ mpc = "new_terminal"
    /\ \E ok \in BOOLEAN :
         IF ok THEN /\ mpc' = "draw"
                    /\ main_result' = main_result
               ELSE ReturnErr
    /\ UNCHANGED <<raw_mode, alt_screen, key, appVars, chanVars, output,
                   workerVars, fs_log>>

(* --------------------------- main: the loop --------------------------- *)

(* terminal.draw(|f| ui(f, app, ..)): outside Downloading ui takes no lock; *)
(* in Downloading it locks download_output before cloning it.              *)
Draw ==
    /\ mpc = "draw"
    /\ \/ /\ ReturnErr
          /\ UNCHANGED lock
       \/ /\ state # Downloading
          /\ mpc' = "read"
          /\ UNCHANGED <<main_result, lock>>
       \/ /\ state = Downloading
          /\ CanLock
          /\ lock' = lock \cup {"main"}
          /\ mpc' = "ui_clone"
          /\ UNCHANGED main_result
    /\ UNCHANGED <<raw_mode, alt_screen, key, appVars, download_output,
                   download_done, download_success, output, workerVars, fs_log>>

(* ui, Downloading arm: clone under the lock, drop the guard, render; the   *)
(* draw may still fail when the frame is flushed.                          *)
UiClone ==
    /\ mpc = "ui_clone"
    /\ output' = Clone(download_output)
    /\ lock' = Unlock("main")
    /\ \/ ReturnErr
       \/ /\ mpc' = "poll"
          /\ UNCHANGED main_result
    /\ UNCHANGED <<raw_mode, alt_screen, key, appVars, download_output,
                   download_done, download_success, workerVars, fs_log>>

(* The keyboard delivers a printable key only while the field being edited *)
(* has room, and then the next letter of the text; outside the two entry   *)
(* states the printable key is the first letter.                           *)
Deliverable(ev) ==
    ev.code \in Chars =>
        CASE state = InputPlaylistName ->
               /\ Len(playlist_name) < MaxNameLen
               /\ ev.code = Letter(Len(playlist_name) + 1)
          [] state = InputUrl ->
               /\ Len(url) < MaxUrlLen
               /\ ev.code = Letter(Len(url) + 1)
          [] OTHER -> ev.code = Letter(1)

(* event::poll(50ms) and, when an event is ready, event::read.             *)
Poll ==
    /\ mpc = "poll"
    /\ output' = <<>>
    /\ \/ /\ ReturnErr
          /\ UNCHANGED key
       \/ /\ mpc' = "check"
          /\ UNCHANGED <<main_result, key>>
       \/ \E ev \in Events :
            /\ Deliverable(ev)
            /\ key' = IF ev.is_key THEN ev ELSE key
            /\ mpc' = IF ev.is_key THEN "dl_key" ELSE "check"
            /\ UNCHANGED main_result
    /\ UNCHANGED <<raw_mode, alt_screen, appVars, chanVars, workerVars, fs_log>>

(* if key.code == KeyCode::Esc { break; }                                  *)
DlKey ==
    /\ mpc = "dl_key"
    /\ mpc' = IF IsCancel(key) THEN "disable_raw" ELSE "check"
    /\ key' = NoKey
    /\ UNCHANGED <<main_result, raw_mode, alt_screen, appVars, chanVars,
                   output, workerVars, fs_log>>

(* A check_download that loads the success flag in place of done.          *)
DoneLoaded_Success == download_success

(* A check_download that does not look at the done flag.                   *)
DoneLoaded_Always == TRUE

(* check_download: self.download_done.load(SeqCst)                          *)
DoneLoaded == download_done

CheckDone ==
    /\ mpc = "check"
    /\ mpc' = IF DoneLoaded THEN "cd_lock" ELSE "draw"
    /\ UNCHANGED <<main_result, raw_mode, alt_screen, key, appVars, chanVars,
                   output, workerVars, fs_log>>

CdLock ==
    /\ mpc = "cd_lock"
    /\ CanLock
    /\ lock' = lock \cup {"main"}
    /\ mpc' = "cd_clone"
    /\ UNCHANGED <<main_result, raw_mode, alt_screen, key, appVars,
                   download_output, download_done, download_success, output,
                   workerVars, fs_log>>

CdClone ==
    /\ mpc = "cd_clone"
    /\ download_output_final' = Clone(download_output)
    /\ lock' = Unlock("main")
    /\ mpc' = "cd_outcome"
    /\ UNCHANGED <<main_result, raw_mode, alt_screen, key, state, playlist_name,
                   url, error_message, files_downloaded, download_output,
                   download_done, download_success, output, workerVars, fs_log>>

(* check_download: the branch on self.download_success.load(SeqCst)         *)
CdOutcome ==
    /\ mpc = "cd_outcome"
    /\ IF download_success
       THEN \E listing \in DirListings :
              /\ files_downloaded' = ReadDirM4a(listing)
              /\ fs_log' = Append(fs_log, "read_dir")
              /\ state' = Done
              /\ UNCHANGED error_message
       ELSE /\ error_message' = ErrorText
            /\ state' = FailedState
            /\ UNCHANGED <<files_downloaded, fs_log>>
    /\ mpc' = "draw"
    /\ UNCHANGED <<main_result, raw_mode, alt_screen, key, playlist_name, url,
                   download_output_final, chanVars, output, workerVars>>

(* The blocking event::read() of the other states.                          *)
ReadKey ==
    /\ mpc = "read"
    /\ \/ /\ ReturnErr
          /\ UNCHANGED key
       \/ \E ev \in Events :
            /\ Deliverable(ev)
            /\ key' = IF ev.is_key THEN ev ELSE key
            /\ mpc' = IF ev.is_key THEN "handle" ELSE "draw"
            /\ UNCHANGED main_result
    /\ UNCHANGED <<raw_mode, alt_screen, appVars, chanVars, output, workerVars,
                   fs_log>>

(* start_download: create the directory, clone the handles, spawn the      *)
(* worker thread.                                                          *)
StartDownload ==
    /\ fs_log' = Append(fs_log, "create_dir_all")
    /\ child' = [NoChild EXCEPT !.url = url, !.output_path = playlist_name]
    /\ wpc' = "spawn"

(* A result screen on which Backspace still edits the name.                *)
HandleFinalKey_Edits ==
    /\ mpc' = IF key.code = "Enter" THEN "disable_raw" ELSE "draw"
    /\ playlist_name' = IF key.code = "Backspace" THEN Pop(playlist_name)
                        ELSE playlist_name
    /\ UNCHANGED <<state, url, error_message, files_downloaded,
                   download_output_final, wpc, child, fs_log>>

(* The Done | Error arm: Enter leaves the loop, any other key does nothing. *)
HandleFinalKey ==
    /\ mpc' = IF key.code = "Enter" THEN "disable_raw" ELSE "draw"
    /\ UNCHANGED <<appVars, wpc, child, fs_log>>

(* The match on app.state for a pressed key.                               *)
HandleKey ==
    /\ mpc = "handle"
    /\ key' = NoKey
    /\ IF key.kind # "Press"
       THEN /\ mpc' = "draw"
            /\ UNCHANGED <<appVars, wpc, child, fs_log>>
       ELSE CASE state = InputPlaylistName ->
                   /\ state' = IF key.code = "Enter" /\ NonEmpty(playlist_name)
                               THEN InputUrl ELSE state
                   /\ playlist_name' =
                        IF key.code = "Enter" THEN playlist_name
                        ELSE IF key.code \in Chars
                             THEN Append(playlist_name, key.code)
                        ELSE IF key.code = "Backspace" THEN Pop(playlist_name)
                        ELSE playlist_name
                   /\ mpc' = IF key.code = "Esc" THEN "disable_raw" ELSE "draw"
                   /\ UNCHANGED <<url, error_message, files_downloaded,
                                  download_output_final, wpc, child, fs_log>>
              [] state = InputUrl ->
                   /\ IF key.code = "Enter" /\ NonEmpty(url)
                      THEN /\ state' = Downloading
                           /\ StartDownload
                      ELSE UNCHANGED <<state, wpc, child, fs_log>>
                   /\ url' =
                        IF key.code = "Enter" THEN url
                        ELSE IF key.code \in Chars THEN Append(url, key.code)
                        ELSE IF key.code = "Backspace" THEN Pop(url)
                        ELSE url
                   /\ mpc' = IF key.code = "Esc" THEN "disable_raw" ELSE "draw"
                   /\ UNCHANGED <<playlist_name, error_message, files_downloaded,
                                  download_output_final>>
              [] state = Downloading ->
                   \* main.rs:239-246; the loop never reads a key here
                   /\ mpc' = IF key.code = "Esc" THEN "disable_raw" ELSE "draw"
                   /\ UNCHANGED <<appVars, wpc, child, fs_log>>
              [] state \in {Done, Error} -> HandleFinalKey
    /\ UNCHANGED <<main_result, raw_mode, alt_screen, chanVars, output, dpc,
                   stream, line>>

(* ------------------------ main: after the loop ------------------------ *)

DisableRawMode ==
    /\ mpc = "disable_raw"
    /\ \/ /\ ReturnErr
          /\ UNCHANGED raw_mode
       \/ /\ raw_mode' = FALSE
          /\ mpc' = "leave_alt"
          /\ UNCHANGED main_result
    /\ UNCHANGED <<alt_screen, key, appVars, chanVars, output, workerVars, fs_log>>

LeaveAlternateScreen ==
    /\ mpc = "leave_alt"
    /\ mpc' = "returned"
    /\ \/ /\ main_result' = "Err"
          /\ UNCHANGED alt_screen
       \/ /\ main_result' = "Ok"
          /\ alt_screen' = FALSE
    /\ UNCHANGED <<raw_mode, key, appVars, chanVars, output, workerVars, fs_log>>

(* ------------------------------ worker -------------------------------- *)

(* Command::new("yt-dlp")...spawn(): Ok with both pipes, or Err.            *)
WorkerSpawn ==
    /\ ProcessAlive
    /\ wpc = "spawn"
    /\ \/ /\ child' = [child EXCEPT !.spawn = "Err"]
          /\ wpc' = "err_lock"
          /\ UNCHANGED stream
       \/ \E out \in Pipes("t1"), err \in Pipes("t2") :
            /\ stream' = [t \in Drains |-> IF t = "t1" THEN out ELSE err]
            /\ child' = [child EXCEPT !.spawn = "Ok", !.pipes = stream']
            /\ wpc' = "start_t1"
    /\ UNCHANGED <<mainVars, appVars, chanVars, output, dpc, line, fs_log>>

(* thread::spawn of the stdout drain, then of the stderr drain.            *)
WorkerStartDrain(t) ==
    /\ ProcessAlive
    /\ wpc = IF t = "t1" THEN "start_t1" ELSE "start_t2"
    /\ dpc' = [dpc EXCEPT ![t] = "read"]
    /\ wpc' = IF t = "t1" THEN "start_t2" ELSE "join_t1"
    /\ UNCHANGED <<mainVars, appVars, chanVars, output, child, stream, line,
                   fs_log>>

(* A worker that does not wait for its drain threads.                      *)
Joined_NoWait(t) == TRUE

(* t.join() returns once the drain thread has ended.                       *)
Joined(t) == dpc[t] = "finished"

WorkerJoin(t) ==
    /\ ProcessAlive
    /\ wpc = IF t = "t1" THEN "join_t1" ELSE "join_t2"
    /\ Joined(t)
    /\ wpc' = IF t = "t1" THEN "join_t2" ELSE "wait"
    /\ UNCHANGED <<mainVars, appVars, chanVars, output, child, dpc, stream,
                   line, fs_log>>

(* c.wait().unwrap_or_default(): the exit status, or the default status    *)
(* when wait itself fails.                                                 *)
WaitStatus(res, code) == IF res = "Ok" THEN code ELSE ExitStatusDefault

(* let status = ...; success_ref.store(status.success(), SeqCst)            *)
WorkerWait ==
    /\ ProcessAlive
    /\ wpc = "wait"
    /\ \E res \in {"Ok", "Err"}, code \in ExitCodes :
         /\ child' = [child EXCEPT !.wait = res, !.exit_code = code]
         /\ download_success' = StatusSuccess(WaitStatus(res, code))
    /\ wpc' = "store_done"
    /\ UNCHANGED <<mainVars, appVars, download_output, download_done, lock,
                   output, dpc, stream, line, fs_log>>

(* Err(e) arm: output_clone.lock()                                          *)
WorkerErrLock ==
    /\ ProcessAlive
    /\ wpc = "err_lock"
    /\ CanLock
    /\ lock' = lock \cup {"worker"}
    /\ wpc' = "err_push"
    /\ UNCHANGED <<mainVars, appVars, download_output, download_done,
                   download_success, output, child, dpc, stream, line, fs_log>>

(* Err(e) arm: push the message, store false, drop the guard.               *)
WorkerErrPush ==
    /\ ProcessAlive
    /\ wpc = "err_push"
    /\ download_output' = PushStr(download_output, SpawnFailText)
    /\ download_success' = FALSE
    /\ lock' = Unlock("worker")
    /\ wpc' = "store_done"
    /\ UNCHANGED <<mainVars, appVars, download_done, output, child, dpc, stream,
                   line, fs_log>>

(* done_ref.store(true, SeqCst)                                             *)
WorkerStoreDone ==
    /\ ProcessAlive
    /\ wpc = "store_done"
    /\ download_done' = TRUE
    /\ wpc' = "finished"
    /\ UNCHANGED <<mainVars, appVars, download_output, download_success, lock,
                   output, child, dpc, stream, line, fs_log>>

(* --------------------------- drain threads ---------------------------- *)

(* for line in reader.lines(): end of stream, an Err that is skipped, or    *)
(* Ok(l).                                                                  *)
DrainRead(t) ==
    /\ ProcessAlive
    /\ dpc[t] = "read"
    /\ IF stream[t] = <<>>
       THEN /\ dpc' = [dpc EXCEPT ![t] = "finished"]
            /\ UNCHANGED <<stream, line>>
       ELSE /\ stream' = [stream EXCEPT ![t] = Tail(stream[t])]
            /\ IF Head(stream[t]).ok
               THEN /\ line' = [line EXCEPT ![t] = Head(stream[t]).text]
                    /\ dpc' = [dpc EXCEPT ![t] = "lock"]
               ELSE UNCHANGED <<line, dpc>>
    /\ UNCHANGED <<mainVars, appVars, chanVars, output, wpc, child, fs_log>>

(* let mut out = out1.lock().unwrap()                                       *)
DrainLock(t) ==
    /\ ProcessAlive
    /\ dpc[t] = "lock"
    /\ CanLock
    /\ lock' = lock \cup {t}
    /\ dpc' = [dpc EXCEPT ![t] = "push_str"]
    /\ UNCHANGED <<mainVars, appVars, download_output, download_done,
                   download_success, output, wpc, child, stream, line, fs_log>>

(* out.push_str(&l)                                                         *)
DrainPushStr(t) ==
    /\ ProcessAlive
    /\ dpc[t] = "push_str"
    /\ download_output' = PushStr(download_output, line[t])
    /\ dpc' = [dpc EXCEPT ![t] = "push_nl"]
    /\ UNCHANGED <<mainVars, appVars, download_done, download_success, lock,
                   output, wpc, child, stream, line, fs_log>>

(* out.push('\n'), and the guard is dropped at the end of the block.        *)
DrainPushNewline(t) ==
    /\ ProcessAlive
    /\ dpc[t] = "push_nl"
    /\ download_output' = Append(download_output, NL)
    /\ lock' = Unlock(t)
    /\ line' = [line EXCEPT ![t] = <<>>]
    /\ dpc' = [dpc EXCEPT ![t] = "read"]
    /\ UNCHANGED <<mainVars, appVars, download_done, download_success, output,
                   wpc, child, stream, fs_log>>

(* --------------------------- specifications --------------------------- *)

MainStep ==
    \/ EnableRawMode
    \/ EnterAlternateScreen
    \/ TerminalNew
    \/ Draw
    \/ UiClone
    \/ Poll
    \/ DlKey
    \/ CheckDone
    \/ CdLock
    \/ CdClone
    \/ CdOutcome
    \/ ReadKey
    \/ HandleKey
    \/ DisableRawMode
    \/ LeaveAlternateScreen

WorkerStep ==
    \/ WorkerSpawn
    \/ \E t \in Drains : WorkerStartDrain(t)
    \/ \E t \in Drains : WorkerJoin(t)
    \/ WorkerWait
    \/ WorkerErrLock
    \/ WorkerErrPush
    \/ WorkerStoreDone

DrainStep(t) ==
    \/ DrainRead(t)
    \/ DrainLock(t)
    \/ DrainPushStr(t)
    \/ DrainPushNewline(t)

Next ==
    \/ MainStep
    \/ WorkerStep
    \/ \E t \in Drains : DrainStep(t)

Spec == Init /\ [][Next]_vars

(* The operating system schedules every live thread of the download: the   *)
(* worker and both drains.  Nothing is assumed of the keyboard.            *)
(* When the lock is released often enough (the loop leaves it free for a   *)
(* whole poll interval each tick) the loop does not take it every time:    *)
(* one of the threads of the download blocked in Mutex::lock gets it.  The *)
(* main thread, once it holds the lock, runs on to drop it.                *)
FairSpec ==
    /\ Spec
    /\ WF_vars(WorkerStep)
    /\ \A t \in Drains : WF_vars(DrainStep(t))
    /\ SF_vars(WorkerErrLock \/ \E t \in Drains : DrainLock(t))
    /\ WF_vars(UiClone)
    /\ WF_vars(CdClone)

(* The main thread is scheduled like the others while it is in Mutex::lock *)
(* with the lock free: in the render of a Downloading frame and in         *)
(* check_download.  Nothing is assumed of the keyboard or of the terminal. *)
LockFairSpec ==
    /\ FairSpec
    /\ WF_vars(Draw /\ mpc' = "ui_clone")
    /\ WF_vars(CdLock)

(* ------------------------------- claims ------------------------------- *)

(* Splitting a text at its newlines; a text that does not end with a       *)
(* newline has a last, unterminated piece.                                 *)
RECURSIVE SplitNL(_, _)
SplitNL(s, cur) ==
    IF s = <<>> THEN (IF cur = <<>> THEN <<>> ELSE <<cur>>)
    ELSE IF Head(s) = NL THEN <<cur>> \o SplitNL(Tail(s), <<>>)
    ELSE SplitNL(Tail(s), Append(cur, Head(s)))

Terminated(s) == s = <<>> \/ s[Len(s)] = NL

(* A text made of whole lines of the two pipes, each with its newline.     *)
WholeLines(s) ==
    /\ Terminated(s)
    /\ \A i \in 1..Len(SplitNL(s, <<>>)) :
         \E t \in Drains :
            \E n \in 1..MaxLines(t) : SplitNL(s, <<>>)[i] = LineText(t, n)

Forward(a, b) ==
    \/ a = InputPlaylistName /\ b = InputUrl
    \/ a = InputUrl /\ b = Downloading
    \/ a = Downloading /\ b \in {Done, Error}

(* C1: the application state only moves forward along                      *)
(* InputPlaylistName -> InputUrl -> Downloading -> {Done | Error}; every   *)
(* other step leaves it where it is, and Done and Error are never left.    *)
C1_StateMovesForward == [][state' = state \/ Forward(state, state')]_vars

C1_Witness == state = Error /\ mpc = "returned" /\ main_result = "Ok"

(* C2: a confirm key on an empty name or an empty url changes nothing but  *)
(* the loop position; past InputPlaylistName the name is non-empty, past   *)
(* InputUrl the url is non-empty, and the worker's url is never empty.     *)
C2_EmptyConfirm ==
    /\ mpc = "handle"
    /\ key.kind = "Press"
    /\ key.code = "Enter"
    /\ \/ state = InputPlaylistName /\ playlist_name = <<>>
       \/ state = InputUrl /\ url = <<>>

C2_ConfirmNeedsText ==
    /\ [][C2_EmptyConfirm /\ mpc' # mpc =>
            /\ mpc' = "draw"
            /\ UNCHANGED <<appVars, chanVars, workerVars, fs_log, raw_mode,
                           alt_screen, main_result>>]_vars
    /\ [](/\ state # InputPlaylistName => playlist_name # <<>>
          /\ state \notin {InputPlaylistName, InputUrl} => url # <<>>
          /\ wpc # "none" => child.url # <<>>)

C2_Witness == C2_EmptyConfirm /\ state = InputUrl

(* C3: done is published after the last append: once done is set no drain  *)
(* is still running, nothing is left unread on a pipe, nobody of the       *)
(* download holds the lock, the text no longer changes, and the copy taken *)
(* by check_download is the whole text.                                    *)
C3_DoneAfterAppends ==
    /\ [](download_done =>
            /\ wpc = "finished"
            /\ \A t \in Drains : dpc[t] \in {"none", "finished"} /\ stream[t] = <<>>
            /\ lock \subseteq {"main"})
    /\ [][download_done => download_output' = download_output]_vars
    /\ [](state \in {Done, Error} => download_output_final = download_output)

C3_Witness ==
    /\ state = Done
    /\ Len(download_output_final) = 7

(* C4: with the two drains appending, every copy the loop takes (the one   *)
(* ui renders and the one check_download keeps) consists of whole lines.   *)
C4_SnapshotsWholeLines ==
    child.spawn = "Ok" => WholeLines(output) /\ WholeLines(download_output_final)

C4_Witness ==
    /\ mpc = "poll"
    /\ output # <<>>
    /\ dpc["t1"] = "push_nl"
    /\ dpc["t2"] = "lock"

(* C5: the loop leaves Downloading for Done only after loading done = true *)
(* and success = true, for Error only after loading done = true and        *)
(* success = false, and the worker has by then written both flags for the  *)
(* last time.                                                              *)
C5_OutcomeFromFinalFlags ==
    [][state = Downloading /\ state' # Downloading =>
         /\ mpc = "cd_outcome"
         /\ download_done
         /\ wpc = "finished"
         /\ state' = Done => download_success
         /\ state' = Error => ~download_success]_vars

C5_Witness ==
    /\ state = Error
    /\ child.wait = "Ok"
    /\ ~StatusSuccess(child.exit_code)

(* C6: when the worker is about to store done, download_success is true   *)
(* exactly when the child was spawned and exited with status 0.            *)
C6_SuccessIffExitZero ==
    wpc \in {"store_done", "finished"} =>
        (download_success <=>
            (child.wait # "none" /\ StatusSuccess(child.exit_code)))

(* C7: whenever main has returned, the terminal is out of raw mode and off *)
(* the alternate screen.                                                   *)
C7_TerminalRestored == mpc = "returned" => ~raw_mode /\ ~alt_screen

(* Where the main thread may go next within a tick of Downloading.         *)
TickSucc(pc) ==
    CASE pc = "draw" -> {"ui_clone", "returned"}
      [] pc = "ui_clone" -> {"poll", "returned"}
      [] pc = "poll" -> {"dl_key", "check", "returned"}
      [] pc = "dl_key" -> IF key.code = "Esc" THEN {"disable_raw"} ELSE {"check"}
      [] pc = "check" -> {"cd_lock"}
      [] pc = "cd_lock" -> {"cd_clone"}
      [] pc = "cd_clone" -> {"cd_outcome"}
      [] pc = "cd_outcome" -> {"draw"}
      [] pc = "disable_raw" -> {"leave_alt", "returned"}
      [] pc = "leave_alt" -> {"returned"}
      [] OTHER -> {}

(* C8: once done is set, a tick of Downloading without a cancel key goes   *)
(* through check_download into Done or Error: the loop comes back to its   *)
(* top only with the state changed, and never waits for the lock.          *)
C8_DoneSeenWithinTick ==
    /\ [][state = Downloading /\ download_done /\ mpc' # mpc =>
            /\ mpc' \in TickSucc(mpc)
            /\ mpc' = "draw" => state' \in {Done, Error}]_vars
    /\ [](mpc = "cd_lock" => lock = {})

C8_Witness ==
    /\ state = Downloading
    /\ download_done
    /\ mpc = "poll"

(* C9 as stated: a spawned worker eventually sets done.                    *)
C9_WorkerAlwaysFinishes == (wpc # "none") ~> download_done

(* C9, amended: a spawned worker eventually sets done unless main returns  *)
(* first and ends the process.                                             *)
C9_WorkerFinishesWhileAlive ==
    (wpc # "none") ~> (download_done \/ mpc = "returned")

C9_Witness ==
    /\ download_done
    /\ child.spawn = "Ok"
    /\ mpc = "check"

(* C10: a cancel key read in Downloading makes the loop exit whether or    *)
(* not done is set, and neither that step nor the way out of main touches  *)
(* the channel, the worker or the drains.                                  *)
C10_CancelExits ==
    /\ [][mpc = "dl_key" /\ key.code = "Esc" /\ mpc' # mpc =>
            /\ mpc' = "disable_raw"
            /\ UNCHANGED <<appVars, chanVars, workerVars, fs_log>>]_vars
    /\ [][(mpc \in {"disable_raw", "leave_alt"}) /\ mpc' # mpc =>
            (UNCHANGED <<appVars, chanVars, workerVars, fs_log>>)]_vars

C10_Witness ==
    /\ mpc = "leave_alt"
    /\ state = Downloading
    /\ ~download_done
    /\ wpc = "join_t1"
    /\ dpc["t1"] = "push_str"

(* C11: when the spawn fails the worker appends the one failure text,     *)
(* stores success = false and done, starts no drain and never waits on a   *)
(* process; the loop can then only go to Error, and what it shows is the   *)
(* fixed message, not the text the worker recorded.                        *)
C11_SpawnFailure ==
    child.spawn = "Err" =>
        /\ \A t \in Drains : dpc[t] = "none" /\ stream[t] = <<>>
        /\ child.wait = "none"
        /\ wpc \in {"err_lock", "err_push", "store_done", "finished"}
        /\ ~download_success
        /\ download_output =
             IF wpc \in {"store_done", "finished"} THEN SpawnFailText ELSE <<>>
        /\ download_done <=> wpc = "finished"
        /\ state \in {Downloading, Error}
        /\ state = Error =>
             /\ error_message = <<"Download failed. Check your connection and URL.">>
             /\ error_message # SpawnFailText
             /\ download_output_final = SpawnFailText
             /\ files_downloaded = <<>>

C11_Witness ==
    /\ child.spawn = "Err"
    /\ state = Error
    /\ mpc = "read"

(* C12: a pressed printable key appends its character to the field of the  *)
(* current entry state, a pressed delete removes the last character (and   *)
(* does nothing to an empty field), and a confirm on a non-empty field     *)
(* moves on with the field as typed: InputPlaylistName to InputUrl with    *)
(* playlist_name, InputUrl to Downloading with url.                        *)
C12_Typed(field, field2) ==
    CASE key.code \in Chars -> field2 = field \o <<key.code>>
      [] key.code = "Backspace" ->
            \/ field = <<>> /\ field2 = <<>>
            \/ \E c \in Chars : field = field2 \o <<c>>
      [] OTHER -> field2 = field

C12_TypingBuildsText ==
    [][mpc = "handle" /\ mpc' # mpc /\ key.kind = "Press" =>
         /\ state = InputPlaylistName =>
              /\ C12_Typed(playlist_name, playlist_name')
              /\ state' = IF key.code = "Enter" /\ playlist_name # <<>>
                          THEN InputUrl ELSE InputPlaylistName
         /\ state = InputUrl =>
              /\ C12_Typed(url, url')
              /\ state' = IF key.code = "Enter" /\ url # <<>>
                          THEN Downloading ELSE InputUrl]_vars

C12_Witness ==
    /\ mpc = "handle"
    /\ key.kind = "Press"
    /\ key.code = "Backspace"
    /\ state = InputUrl
    /\ playlist_name = <<"a", "b">>
    /\ url = <<"a", "b">>

(* The lines of a text that came from pipe t, in the order they stand.    *)
FromPipe(s, t) ==
    SelectSeq(SplitNL(s, <<>>),
              LAMBDA l : l # <<>> /\ l[1] = LineText(t, 1)[1])

(* The texts of a pipe's first k lines, and of those among them that       *)
(* reader.lines() yields as Ok.                                            *)
FirstLines(t, k) == [i \in 1..k |-> child.pipes[t][i].text]

RECURSIVE OkLines(_, _)
OkLines(t, k) ==
    IF k = 0 THEN <<>>
    ELSE IF child.pipes[t][k].ok
         THEN Append(OkLines(t, k - 1), child.pipes[t][k].text)
         ELSE OkLines(t, k - 1)

(* C13 as stated: in every copy the loop takes, the lines of each pipe are *)
(* the first lines of that pipe, in order.                                 *)
C13_PrefixOfPipe ==
    \A s \in {output, download_output_final} : \A t \in Drains :
        \E k \in 0..Len(child.pipes[t]) : FromPipe(s, t) = FirstLines(t, k)

(* C13, amended: in every copy the loop takes, the lines of each pipe are  *)
(* the lines read as Ok among the first lines of that pipe, in order.      *)
C13_PrefixOfReadLines ==
    \A s \in {output, download_output_final} : \A t \in Drains :
        \E k \in 0..Len(child.pipes[t]) : FromPipe(s, t) = OkLines(t, k)

C13_Witness ==
    /\ mpc = "poll"
    /\ Len(child.pipes["t1"]) = 2
    /\ ~child.pipes["t1"][1].ok
    /\ output = <<"e", NL, "o", "o", NL>>

(* C14: the worker is started at most once, by the confirm of the URL, and *)
(* the done flag is false until the worker's last step sets it, changes in *)
(* no other step and never goes back to false.                             *)
C14_OneWorkerDoneOnce ==
    /\ [][(wpc' = "spawn" /\ wpc # "spawn") =>
            /\ wpc = "none"
            /\ mpc = "handle"
            /\ state = InputUrl
            /\ state' = Downloading]_vars
    /\ [][wpc # "none" => wpc' # "none"]_vars
    /\ [][download_done => download_done']_vars
    /\ [][download_done' # download_done =>
            /\ wpc = "store_done"
            /\ wpc' = "finished"]_vars
    /\ [](download_done <=> wpc = "finished")
    /\ [](Len(SelectSeq(fs_log, LAMBDA e : e = "create_dir_all")) =
            IF wpc = "none" THEN 0 ELSE 1)

C14_Witness ==
    /\ download_done
    /\ ~download_success
    /\ state = Error
    /\ mpc = "handle"
    /\ key.kind = "Press"
    /\ key.code = "Enter"

(* C15 as stated: after each render in Downloading the App's copy of the   *)
(* output equals the channel's text as of that render.                     *)
C15_FieldRefreshed ==
    (mpc = "poll" /\ state = Downloading) => download_output_final = output

(* C15, amended: each render in Downloading copies the channel's text as   *)
(* it is at that render into a local of the render; the App's own copy     *)
(* stays empty until the tick that has seen done, which assigns it once.   *)
C15_RenderCopiesChannel ==
    /\ [][(mpc = "ui_clone" /\ mpc' # mpc) =>
            /\ state = Downloading
            /\ output' = download_output]_vars
    /\ [][(mpc = "draw" /\ state = Downloading /\ mpc' # mpc) =>
            mpc' \in {"ui_clone", "disable_raw", "returned"}]_vars
    /\ []((state = Downloading /\ mpc # "cd_outcome") =>
            download_output_final = <<>>)
    /\ [][download_output_final' # download_output_final =>
            /\ mpc = "cd_clone"
            /\ download_done
            /\ download_output_final = <<>>
            /\ download_output_final' = download_output]_vars

C15_Witness ==
    /\ mpc = "poll"
    /\ state = Downloading
    /\ output = <<"o", NL, "e", NL>>
    /\ download_output_final = <<>>

(* C16: the error message is non-empty only in Error and the file list     *)
(* only in Done; the file list is assigned by one directory listing, in    *)
(* the step that enters Done, and the error message only in the step that  *)
(* enters Error.                                                           *)
C16_ResultFieldsByState ==
    /\ [](error_message # <<>> => state = Error)
    /\ [](files_downloaded # <<>> => state = Done)
    /\ [](state = Error => error_message # <<>>)
    /\ [][files_downloaded' # files_downloaded =>
            /\ state = Downloading
            /\ state' = Done
            /\ files_downloaded = <<>>]_vars
    /\ [][error_message' # error_message =>
            /\ state = Downloading
            /\ state' = Error
            /\ error_message = <<>>]_vars
    /\ [][(state # Done /\ state' = Done) <=>
            fs_log' = Append(fs_log, "read_dir")]_vars
    /\ [](Len(SelectSeq(fs_log, LAMBDA e : e = "read_dir")) =
            IF state = Done THEN 1 ELSE 0)

C16_Witness ==
    /\ state = Done
    /\ files_downloaded = <<<<"track", "m4a">>>>
    /\ error_message = <<>>
    /\ mpc = "handle"

(* C17: create_dir_all is called once, in the step that enters Downloading *)
(* and before the child process is spawned; read_dir is called only by a   *)
(* tick that has seen done with success set, so never while the worker     *)
(* runs and never after a failure.                                         *)
C17_DirCreatedThenListed ==
    /\ [][(state # Downloading /\ state' = Downloading) <=>
            fs_log' = Append(fs_log, "create_dir_all")]_vars
    /\ [][fs_log' = Append(fs_log, "create_dir_all") =>
            /\ fs_log = <<>>
            /\ wpc = "none"
            /\ wpc' = "spawn"
            /\ child'.spawn = "none"
            /\ child'.output_path = playlist_name]_vars
    /\ [](child.spawn # "none" => Head(fs_log) = "create_dir_all")
    /\ [][fs_log' # fs_log /\ fs_log # <<>> =>
            /\ fs_log' = <<"create_dir_all", "read_dir">>
            /\ mpc = "cd_outcome"
            /\ download_done
            /\ download_success
            /\ wpc = "finished"
            /\ state' = Done]_vars
    /\ []((~download_done \/ ~download_success \/ state = Error) =>
            fs_log \in {<<>>, <<"create_dir_all">>})

C17_Witness ==
    /\ fs_log = <<"create_dir_all", "read_dir">>
    /\ state = Done
    /\ child.output_path = <<"a", "b">>

(* C18: the name changes only in the handling of a pressed key in         *)
(* InputPlaylistName and the URL only in the handling of a pressed key in  *)
(* InputUrl; no other step changes either, so from the start of the        *)
(* download on the name is the one the directory was created from and the  *)
(* URL the one handed to the child.                                        *)
C18_NameUrlFrame ==
    /\ [][playlist_name' # playlist_name =>
            /\ mpc = "handle"
            /\ state = InputPlaylistName
            /\ key.kind = "Press"
            /\ key.code \in Chars \cup {"Backspace"}]_vars
    /\ [][url' # url =>
            /\ mpc = "handle"
            /\ state = InputUrl
            /\ key.kind = "Press"
            /\ key.code \in Chars \cup {"Backspace"}]_vars
    /\ [](wpc # "none" =>
            /\ child.output_path = playlist_name
            /\ child.url = url)

C18_Witness ==
    /\ state = Done
    /\ mpc = "handle"
    /\ key.kind = "Press"
    /\ key.code = "Backspace"
    /\ playlist_name = <<"a", "b">>
    /\ child.output_path = <<"a", "b">>

(* The threads that are between taking the guard and dropping it.         *)
InGuard ==
    {t \in Drains : dpc[t] \in {"push_str", "push_nl"}}
        \cup (IF wpc = "err_push" THEN {"worker"} ELSE {})
        \cup (IF mpc \in {"ui_clone", "cd_clone"} THEN {"main"} ELSE {})

(* The step with which a thread that holds the guard goes on.              *)
GuardedStep(th) ==
    CASE th = "main" -> UiClone \/ CdClone
      [] th = "worker" -> WorkerErrPush
      [] OTHER -> DrainPushStr(th) \/ DrainPushNewline(th)

(* A thread is in Mutex::lock.                                             *)
InLock(th) ==
    CASE th = "main" -> \/ mpc = "draw" /\ state = Downloading
                        \/ mpc = "cd_lock"
      [] th = "worker" -> wpc = "err_lock"
      [] OTHER -> dpc[th] = "lock"

(* C19 as stated: at most one holder, none at a blocking operation, a      *)
(* holder can always go on, and no thread stays in Mutex::lock forever.    *)
C19_WaitersAlwaysGetLock ==
    /\ [](Cardinality(lock) <= 1)
    /\ [](lock = InGuard)
    /\ [](ProcessAlive => \A th \in lock : ENABLED GuardedStep(th))
    /\ \A th \in Drains \cup {"worker", "main"} : []<>(~InLock(th))

(* C19, amended: at most one thread holds the lock and only between taking *)
(* the guard and dropping it, so never at a stream read, a join, a wait    *)
(* or a key poll; a holder can always go on; a thread leaves Mutex::lock   *)
(* only with the guard, and none stays in it forever unless main returns   *)
(* and ends the process.                                                   *)
C19_MutexFair ==
    /\ [](Cardinality(lock) <= 1)
    /\ [](lock = InGuard)
    /\ [](ProcessAlive => \A th \in lock : ENABLED GuardedStep(th))
    /\ [][\A th \in Drains \cup {"worker", "main"} :
            (InLock(th) /\ ~InLock(th)') =>
                \/ lock = {} /\ lock' = {th}
                \/ th = "main" /\ mpc' = "returned"]_vars
    /\ \A th \in Drains \cup {"worker", "main"} :
            []<>(~InLock(th) \/ ~ProcessAlive)

C19_Witness ==
    /\ lock = {"t2"}
    /\ dpc["t1"] = "lock"
    /\ mpc = "draw"
    /\ state = Downloading

(* C20: a cancel key read in a Downloading tick ends the loop before       *)
(* check_download runs, and nothing after the loop writes the App: when    *)
(* main leaves from Downloading, also with done already set, the state is  *)
(* still Downloading and the file list, the error message and the final    *)
(* output copy are empty.                                                  *)
C20_CancelBeforeCompletion ==
    /\ [][(mpc = "dl_key" /\ key.code = "Esc" /\ mpc' # mpc) =>
            /\ state = Downloading
            /\ mpc' = "disable_raw"
            /\ UNCHANGED appVars]_vars
    /\ [][(mpc \in {"disable_raw", "leave_alt", "returned"}) =>
            /\ mpc' \in {"disable_raw", "leave_alt", "returned"}
            /\ UNCHANGED appVars]_vars
    /\ []((state = Downloading /\ mpc \in {"disable_raw", "leave_alt", "returned"}) =>
            /\ files_downloaded = <<>>
            /\ error_message = <<>>
            /\ download_output_final = <<>>)

C20_Witness ==
    /\ mpc = "returned"
    /\ main_result = "Ok"
    /\ state = Downloading
    /\ download_done
    /\ download_success
    /\ download_output # <<>>

====
